---- MODULE Spec2Model ----
(***************************************************************************)
(* A model of the LRU cache of package cache (lru.go) and of its null      *)
(* wrapper.  Time is counted in milliseconds.  The recency list of         *)
(* container/list is a sequence of element handles, front first; the heap  *)
(* maps a handle to the *listEntry it carries; hash maps a key to a        *)
(* handle.                                                                 *)
(***************************************************************************)
EXTENDS Integers, Sequences, FiniteSets, TLC

\* ---------------------------------------------------------------- constants

Millisecond == 1
Second == 1000
Minute == 60000
DefaultMaxLen == 10000
DefaultCacheTime == Minute

\* ------------------------------------------------------------------- bounds

\* the clock stops advancing past MaxNow
MaxNow == 2001

Keys == {"a", "b", "c"}
Values == {"v1", "v2"}
\* the nil Value, the nil *list.Element and the nil Interface
Nil == "nil"
NilElem == <<>>
NilCache == "nil"
\* Config.MaxLen, Config.CacheTime and PutWithTimeout's t, as the callers give them
MaxLens == {-1, 0, 1, 2}
CacheTimes == {0, 1}
TTLs == {1, 2000}
\* how far the clock moves between two operations
TimeSteps == {1000, 1001}
\* the goroutines that share one cache, and the calls they make
Procs == {"p1", "p2"}
ConcKeys == {"a", "b"}
ConcCalls ==
    {[op |-> "Put", key |-> k, value |-> "v1", t |-> 0] : k \in ConcKeys}
    \cup {[op |-> "PutWithTimeout", key |-> k, value |-> "v1", t |-> 1] : k \in ConcKeys}
    \cup {[op |-> o, key |-> k, value |-> Nil, t |-> 0] : o \in {"Get", "Del"}, k \in ConcKeys}
    \cup {[op |-> o, key |-> Nil, value |-> Nil, t |-> 0] : o \in {"Len", "Close"}}

VARIABLES
    conf,       \* history: the Config the cache was constructed with
    wrap,       \* the cache as its callers hold it: what was given to Wrap, and the
                \* Interface Wrap returned for it
    maxLen,     \* lruCache.maxLen
    onEvicted,  \* lruCache.onEvicted: "nil", "record" or "reenter"
    cacheTime,  \* lruCache.cacheTime
    lst,        \* lruCache.lst: the element handles, front first
    hash,       \* lruCache.hash: key -> element handle
    heap,       \* element handle -> the listEntry it points to
    now,        \* time.Now()
    last,       \* history: the operation that completed last, whether the index held
                \* its key when it began, and what it returned
    cbLog,      \* history: the onEvicted calls made by that operation
    touched,    \* history: the live keys by their most recent touch, oldest first
    uncalled,   \* history: the entries removed so far by eviction, expiry or Del,
                \* less the onEvicted calls made so far (kept when a callback is set)
    mu,         \* lruCache.Mutex: TRUE when locked
    pc,         \* per goroutine: where it is in its call, "idle" between calls
    call,       \* per goroutine: the call it is in, [op, key, value, t]
    out,        \* per goroutine: what its call returned and the onEvicted calls it made
    pending,    \* per goroutine: the onEvicted calls removeElem is about to make
    outer,      \* per goroutine: the calls suspended inside onEvicted, innermost last
    expect      \* history, per goroutine: its call's result had it run alone from
                \* the state its body started in

cacheVars == <<lst, hash, heap>>
configVars == <<conf, wrap, maxLen, onEvicted, cacheTime>>
histVars == <<last, cbLog, touched, uncalled>>
procVars == <<mu, pc, call, out, pending, outer, expect>>
vars == <<conf, wrap, maxLen, onEvicted, cacheTime, lst, hash, heap, now, last, cbLog, touched, uncalled,
          mu, pc, call, out, pending, outer, expect>>

\* ------------------------------------------------------------------ helpers

Range(f) == {f[x] : x \in DOMAIN f}
Restrict(f, S) == [x \in S |-> f[x]]
EmptyMap == [x \in {} |-> 0]

\* the cache's three structures as one value
Cache == [lst |-> lst, hash |-> hash, heap |-> heap]

\* the garbage collector: an element no list and no index reaches is gone
Collect(c) == [c EXCEPT !.heap = Restrict(c.heap, (Range(c.lst) \cup Range(c.hash)) \cap DOMAIN c.heap)]

\* a fresh element, as PushFront allocates it: a handle nothing reaches, named
\* <<key, i>> after the key it is allocated for, with the smallest i that is free
NewElem(c, key) ==
    LET used == Range(c.lst) \cup Range(c.hash) \cup DOMAIN c.heap
    IN  <<key, CHOOSE i \in 1..(Cardinality(used) + 1) : <<key, i>> \notin used>>

\* container/list
ListRemove(l, e) == SelectSeq(l, LAMBDA x : x # e)
\* PushFront inserting at the back
PushBack(l, e) == l \o <<e>>
PushFront(l, e) == <<e>> \o l
MoveToFront(l, e) == IF e \in Range(l) THEN <<e>> \o ListRemove(l, e) ELSE l
\* Back taking the element at the front
BackIsFront(l) == IF l = <<>> THEN NilElem ELSE l[1]
Back(l) == IF l = <<>> THEN NilElem ELSE l[Len(l)]

\* ------------------------------------------------------------- construction

\* NewCacheWithConfig replacing a CacheTime of exactly one millisecond too
NewCacheWithConfigAtMost(config) ==
    [maxLen |-> config.MaxLen,
     onEvicted |-> config.Callback,
     lst |-> <<>>,
     hash |-> EmptyMap,
     cacheTime |-> IF config.CacheTime <= Millisecond THEN DefaultCacheTime ELSE config.CacheTime]

NewCacheWithConfig(config) ==
    [maxLen |-> config.MaxLen,
     onEvicted |-> config.Callback,
     lst |-> <<>>,
     hash |-> EmptyMap,
     cacheTime |-> IF config.CacheTime < Millisecond THEN DefaultCacheTime ELSE config.CacheTime]

NewCache == NewCacheWithConfig([MaxLen |-> DefaultMaxLen, Callback |-> "nil", CacheTime |-> DefaultCacheTime])

\* ------------------------------------------------------------ the operations
\* Each yields [lst, hash, heap, cb, value, found, n]: the structures after the
\* call, the onEvicted calls it made, and what it returned.

Result(c, cb, value, found, n) ==
    [lst |-> c.lst, hash |-> c.hash, heap |-> c.heap, cb |-> cb, value |-> value, found |-> found, n |-> n]

\* unlinkElem without delete(lru.hash, entry.key)
unlinkElemKeepIndex(c, elem) == Collect([c EXCEPT !.lst = ListRemove(c.lst, elem)])

\* removeElem without its call of onEvicted
unlinkElem(c, elem) ==
    LET entry == c.heap[elem]
    IN  Collect([c EXCEPT !.lst = ListRemove(c.lst, elem),
                          !.hash = Restrict(c.hash, DOMAIN c.hash \ {entry.key})])

\* evictedCalls with the callback called a second time
evictedCallsTwice(c, elem) ==
    IF onEvicted # "nil"
    THEN <<[key |-> c.heap[elem].key, value |-> c.heap[elem].value],
           [key |-> c.heap[elem].key, value |-> c.heap[elem].value]>>
    ELSE <<>>

\* the calls of onEvicted removeElem makes
evictedCalls(c, elem) ==
    IF onEvicted # "nil" THEN <<[key |-> c.heap[elem].key, value |-> c.heap[elem].value]>> ELSE <<>>

removeElem(c, elem) ==
    IF elem = NilElem
    THEN Result(c, <<>>, Nil, FALSE, 0)
    ELSE Result(unlinkElem(c, elem), evictedCalls(c, elem), Nil, FALSE, 0)

\* lazyRemoveOldest taking an entry past its deadline when there is one
lazyRemoveOldestExpiredFirst(c) ==
    IF Cardinality(DOMAIN c.hash) > maxLen
    THEN LET ex == {i \in 1..Len(c.lst) : c.heap[c.lst[i]].deadTime < now}
         IN  removeElem(c, IF ex = {} THEN Back(c.lst)
                           ELSE c.lst[CHOOSE i \in ex : \A j \in ex : i <= j])
    ELSE Result(c, <<>>, Nil, FALSE, 0)

\* lazyRemoveOldest that treats a maxLen below 1 as no limit
lazyRemoveOldestPositiveOnly(c) ==
    IF maxLen > 0 /\ Cardinality(DOMAIN c.hash) > maxLen
    THEN removeElem(c, Back(c.lst))
    ELSE Result(c, <<>>, Nil, FALSE, 0)

\* lazyRemoveOldest comparing against maxLen + 1
lazyRemoveOldestOffByOne(c) ==
    IF Cardinality(DOMAIN c.hash) > maxLen + 1
    THEN removeElem(c, Back(c.lst))
    ELSE Result(c, <<>>, Nil, FALSE, 0)

lazyRemoveOldest(c) ==
    IF Cardinality(DOMAIN c.hash) > maxLen
    THEN removeElem(c, Back(c.lst))
    ELSE Result(c, <<>>, Nil, FALSE, 0)

\* clampTimeout without the minimum
clampTimeoutNone(t) == t

\* t < time.Second => t = time.Second
clampTimeout(t) == IF t < Second THEN Second ELSE t

\* putExisting without the assignment of the deadline
putExistingKeepDeadline(c, key, value, t) ==
    LET elem == c.hash[key]
    IN  [c EXCEPT !.lst = MoveToFront(c.lst, elem),
                  !.heap = [c.heap EXCEPT ![elem].value = value]]

\* PutWithTimeout's branch for a key the index holds
putExisting(c, key, value, t) ==
    LET elem == c.hash[key]
    IN  [c EXCEPT !.lst = MoveToFront(c.lst, elem),
                  !.heap = [c.heap EXCEPT ![elem].value = value,
                                          ![elem].deadTime = now + clampTimeout(t)]]

\* PutWithTimeout's branch for a new key, before lazyRemoveOldest
putNew(c, key, value, t) ==
    LET elem == NewElem(c, key)
        entry == [key |-> key, value |-> value, deadTime |-> now + clampTimeout(t)]
    IN  [lst |-> PushFront(c.lst, elem),
         hash |-> [k \in DOMAIN c.hash \cup {key} |-> IF k = key THEN elem ELSE c.hash[k]],
         heap |-> [h \in DOMAIN c.heap \cup {elem} |-> IF h = elem THEN entry ELSE c.heap[h]]]

PutWithTimeoutOp(c, key, value, t) ==
    IF key \in DOMAIN c.hash
    THEN Result(putExisting(c, key, value, t), <<>>, Nil, FALSE, 0)
    ELSE lazyRemoveOldest(putNew(c, key, value, t))

PutOp(c, key, value) == PutWithTimeoutOp(c, key, value, cacheTime)

\* expired with the deadline itself counted as passed
expiredAtDeadline(entry) == entry.deadTime <= now

\* entry.deadTime.Before(time.Now())
expired(entry) == entry.deadTime < now

\* GetOp without lru.lst.MoveToFront(elem)
GetOpNoPromote(c, key) ==
    IF key \in DOMAIN c.hash
    THEN LET elem == c.hash[key]
             entry == c.heap[elem]
         IN  IF entry.deadTime < now
             THEN removeElem(c, elem)
             ELSE Result(c, <<>>, entry.value, TRUE, 0)
    ELSE Result(c, <<>>, Nil, FALSE, 0)

\* GetOp renewing the deadline of the entry it finds
GetOpRenew(c, key) ==
    IF key \in DOMAIN c.hash
    THEN LET elem == c.hash[key]
             entry == c.heap[elem]
         IN  IF entry.deadTime < now
             THEN removeElem(c, elem)
             ELSE Result([c EXCEPT !.lst = MoveToFront(c.lst, elem),
                                   !.heap = [c.heap EXCEPT ![elem].deadTime = now + cacheTime]],
                         <<>>, entry.value, TRUE, 0)
    ELSE Result(c, <<>>, Nil, FALSE, 0)

GetOp(c, key) ==
    IF key \in DOMAIN c.hash
    THEN LET elem == c.hash[key]
             entry == c.heap[elem]
         IN  IF expired(entry)
             THEN removeElem(c, elem)
             ELSE Result([c EXCEPT !.lst = MoveToFront(c.lst, elem)], <<>>, entry.value, TRUE, 0)
    ELSE Result(c, <<>>, Nil, FALSE, 0)

\* DelOp returning nil for the entry it removed
DelOpNoValue(c, key) ==
    IF key \in DOMAIN c.hash
    THEN removeElem(c, c.hash[key])
    ELSE Result(c, <<>>, Nil, FALSE, 0)

DelOp(c, key) ==
    IF key \in DOMAIN c.hash
    THEN LET elem == c.hash[key]
             r == removeElem(c, elem)
         IN  [r EXCEPT !.value = c.heap[elem].value]
    ELSE Result(c, <<>>, Nil, FALSE, 0)

\* LenOp counting only the entries whose deadline has not passed
LenOpLiveOnly(c) ==
    Result(c, <<>>, Nil, FALSE, Cardinality({k \in DOMAIN c.hash : c.heap[c.hash[k]].deadTime >= now}))

LenOp(c) == Result(c, <<>>, Nil, FALSE, Cardinality(DOMAIN c.hash))

\* CloseOp without lru.lst.Init()
CloseOpKeepList(c) == Result(Collect([c EXCEPT !.hash = EmptyMap]), <<>>, Nil, FALSE, 0)

CloseOp(c) == Result(Collect([c EXCEPT !.hash = EmptyMap, !.lst = <<>>]), <<>>, Nil, FALSE, 0)

\* ------------------------------------------------------------------ history

Touch(s, key) == Append(SelectSeq(s, LAMBDA x : x # key), key)
Survivors(s, r) == SelectSeq(s, LAMBDA x : x \in DOMAIN r.hash)
LastOf(op, key, value, t, r) ==
    [op |-> op, key |-> key, value |-> value, t |-> t, existed |-> key \in DOMAIN hash,
     ret |-> r.value, found |-> r.found, n |-> r.n]

\* ------------------------------------------------------------------ actions

NoCall == [op |-> "none", key |-> Nil, value |-> Nil, t |-> 0]
NoOut == [cb |-> <<>>, value |-> Nil, found |-> FALSE, n |-> 0]
NoResult == Result([lst |-> <<>>, hash |-> EmptyMap, heap |-> EmptyMap], <<>>, Nil, FALSE, 0)

\* Wrap with its test inverted
WrapInverted(c) == IF c = NilCache THEN c ELSE "empty"

\* Wrap: the cache itself, or the null cache &empty{} for a nil one
Wrap(c) == IF c # NilCache THEN c ELSE "empty"

\* the state NewCacheWithConfig(cfg) returns, before any call
ConstructedCache(cfg) ==
    /\ conf = cfg
    /\ LET lru == NewCacheWithConfig(cfg)
       IN  /\ maxLen = lru.maxLen
           /\ onEvicted = lru.onEvicted
           /\ cacheTime = lru.cacheTime
           /\ lst = lru.lst
           /\ hash = lru.hash
    /\ heap = EmptyMap
    /\ mu = FALSE
    /\ pc = [p \in Procs |-> "idle"]
    /\ call = [p \in Procs |-> NoCall]
    /\ out = [p \in Procs |-> NoOut]
    /\ pending = [p \in Procs |-> <<>>]
    /\ outer = [p \in Procs |-> <<>>]
    /\ expect = [p \in Procs |-> NoResult]

\* a constructed cache that its callers hold directly
Constructed(cfg) ==
    /\ wrap = [given |-> "lruCache", iface |-> "lruCache"]
    /\ ConstructedCache(cfg)

Init ==
    /\ \E ml \in MaxLens, ct \in CacheTimes, cb \in {"nil", "record"} :
          Constructed([MaxLen |-> ml, Callback |-> cb, CacheTime |-> ct])
    /\ now = 0
    /\ last = [op |-> "New", key |-> Nil, value |-> Nil, t |-> 0, existed |-> FALSE, ret |-> Nil, found |-> FALSE, n |-> 0]
    /\ cbLog = <<>>
    /\ touched = <<>>
    /\ uncalled = 0

\* what every completed operation does to the state: r is its result
Complete(l, r, touchedNext, removals) ==
    /\ lst' = r.lst
    /\ hash' = r.hash
    /\ heap' = r.heap
    /\ last' = l
    /\ cbLog' = r.cb
    /\ touched' = touchedNext
    /\ uncalled' = IF onEvicted = "nil" THEN 0 ELSE uncalled + removals - Len(r.cb)
    /\ UNCHANGED <<configVars, now, procVars>>

\* the entries an operation removed: those it found, and the one it inserted, less those it left
Removals(r, inserted) == Len(lst) + inserted - Len(r.lst)
Inserted(key) == IF key \in DOMAIN hash THEN 0 ELSE 1

PutWithTimeout(key, value, t) ==
    LET r == PutWithTimeoutOp(Cache, key, value, t)
    IN  Complete(LastOf("PutWithTimeout", key, value, t, r),
                 r, Survivors(Touch(touched, key), r), Removals(r, Inserted(key)))

Put(key, value) ==
    LET r == PutOp(Cache, key, value)
    IN  Complete(LastOf("Put", key, value, cacheTime, r),
                 r, Survivors(Touch(touched, key), r), Removals(r, Inserted(key)))

Get(key) ==
    LET r == GetOp(Cache, key)
    IN  Complete(LastOf("Get", key, Nil, 0, r),
                 r, IF r.found THEN Touch(touched, key) ELSE Survivors(touched, r), Removals(r, 0))

Del(key) ==
    LET r == DelOp(Cache, key)
    IN  Complete(LastOf("Del", key, Nil, 0, r), r, Survivors(touched, r), Removals(r, 0))

Length ==
    LET r == LenOp(Cache)
    IN  Complete(LastOf("Len", Nil, Nil, 0, r), r, touched, 0)

\* (for Close the history keeps whether the index held any key)
Close ==
    LET r == CloseOp(Cache)
    IN  Complete([LastOf("Close", Nil, Nil, 0, r) EXCEPT !.existed = DOMAIN hash # {}], r, <<>>, 0)

\* the clock moves between two operations
Tick(d) ==
    /\ now + d <= MaxNow
    /\ now' = now + d
    /\ UNCHANGED <<configVars, cacheVars, histVars, procVars>>

Next ==
    \/ \E key \in Keys, value \in Values : Put(key, value)
    \/ \E key \in Keys, value \in Values, t \in TTLs : PutWithTimeout(key, value, t)
    \/ \E key \in Keys : Get(key)
    \/ \E key \in Keys : Del(key)
    \/ Length
    \/ Close
    \/ \E d \in TimeSteps : Tick(d)

Spec == Init /\ [][Next]_vars

\* ------------------------------------------------------------ the null cache
\* Wrap(c) and the calls made through the Interface it returns.  The methods of
\* empty have no receiver state: they leave the structures they are given as
\* they are and return the zero results.

emptyPut(c, key, value) == Result(c, <<>>, Nil, FALSE, 0)
emptyPutWithTimeout(c, key, value, t) == Result(c, <<>>, Nil, FALSE, 0)
emptyGet(c, key) == Result(c, <<>>, Nil, FALSE, 0)
emptyDel(c, key) == Result(c, <<>>, Nil, FALSE, 0)
emptyLen(c) == Result(c, <<>>, Nil, FALSE, 0)
emptyClose(c) == Result(c, <<>>, Nil, FALSE, 0)

\* the caller has a nil Interface or an *lruCache, and uses what Wrap returns;
\* for a nil one the fields of the model stand for no cache and stay empty
WrapInit ==
    /\ \E c \in {NilCache, "lruCache"} : wrap = [given |-> c, iface |-> Wrap(c)]
    /\ ConstructedCache([MaxLen |-> 1, Callback |-> "record", CacheTime |-> 1])
    /\ now = 0
    /\ last = [op |-> "New", key |-> Nil, value |-> Nil, t |-> 0, existed |-> FALSE, ret |-> Nil, found |-> FALSE, n |-> 0]
    /\ cbLog = <<>>
    /\ touched = <<>>
    /\ uncalled = 0

\* (on the null cache, touched keeps the keys that were put, latest last)
WPut(key, value) ==
    \/ /\ wrap.iface = "empty"
       /\ LET r == emptyPut(Cache, key, value)
          IN  Complete(LastOf("Put", key, value, 0, r), r, Touch(touched, key), 0)
    \/ /\ wrap.iface = "lruCache"
       /\ Put(key, value)

WPutWithTimeout(key, value, t) ==
    \/ /\ wrap.iface = "empty"
       /\ LET r == emptyPutWithTimeout(Cache, key, value, t)
          IN  Complete(LastOf("PutWithTimeout", key, value, t, r), r, Touch(touched, key), 0)
    \/ /\ wrap.iface = "lruCache"
       /\ PutWithTimeout(key, value, t)

WGet(key) ==
    \/ /\ wrap.iface = "empty"
       /\ LET r == emptyGet(Cache, key)
          IN  Complete(LastOf("Get", key, Nil, 0, r), r, touched, 0)
    \/ /\ wrap.iface = "lruCache"
       /\ Get(key)

WDel(key) ==
    \/ /\ wrap.iface = "empty"
       /\ LET r == emptyDel(Cache, key)
          IN  Complete(LastOf("Del", key, Nil, 0, r), r, touched, 0)
    \/ /\ wrap.iface = "lruCache"
       /\ Del(key)

WLen ==
    \/ /\ wrap.iface = "empty"
       /\ LET r == emptyLen(Cache)
          IN  Complete(LastOf("Len", Nil, Nil, 0, r), r, touched, 0)
    \/ /\ wrap.iface = "lruCache"
       /\ Length

WClose ==
    \/ /\ wrap.iface = "empty"
       /\ LET r == emptyClose(Cache)
          IN  Complete(LastOf("Close", Nil, Nil, 0, r), r, touched, 0)
    \/ /\ wrap.iface = "lruCache"
       /\ Close

WrapNext ==
    \/ \E key \in Keys, value \in Values : WPut(key, value)
    \/ \E key \in Keys, value \in Values, t \in TTLs : WPutWithTimeout(key, value, t)
    \/ \E key \in Keys : WGet(key)
    \/ \E key \in Keys : WDel(key)
    \/ WLen
    \/ WClose
    \/ \E d \in TimeSteps : Tick(d)

WrapSpec == WrapInit /\ [][WrapNext]_vars

\* --------------------------------------------------------------- goroutines
\* The same cache called from several goroutines.  A call is lru.Lock(), its
\* body, lazyRemoveOldest for a Put of a new key, onEvicted for an entry
\* removeElem removed, and the deferred lru.Unlock().

InCall == {"body", "evict", "callback", "unlock"}

ApplyCall(c, cl) ==
    CASE cl.op = "Put" -> PutOp(c, cl.key, cl.value)
      [] cl.op = "PutWithTimeout" -> PutWithTimeoutOp(c, cl.key, cl.value, cl.t)
      [] cl.op = "Get" -> GetOp(c, cl.key)
      [] cl.op = "Del" -> DelOp(c, cl.key)
      [] cl.op = "Len" -> LenOp(c)
      [] OTHER -> CloseOp(c)

\* CanLock of a mutex that excludes nobody
CanLockAlways(p) == TRUE

\* CanLock of a mutex its holder may lock again
CanLockReentrant(p) == ~mu \/ outer[p] # <<>>

\* sync.Mutex: Lock returns once the mutex is unlocked, whoever locked it
CanLock(p) == ~mu

\* Unlocked with Get's not-found return leaving the mutex locked
UnlockedLeak(p) == call[p].op = "Get" /\ ~out[p].found

\* the mutex after the deferred Unlock
Unlocked(p) == FALSE

ConcInit ==
    /\ \E cb \in {"nil", "record", "reenter"} :
          Constructed([MaxLen |-> 1, Callback |-> cb, CacheTime |-> 1])
    /\ now = 0
    /\ last = [op |-> "New", key |-> Nil, value |-> Nil, t |-> 0, existed |-> FALSE, ret |-> Nil, found |-> FALSE, n |-> 0]
    /\ cbLog = <<>>
    /\ touched = <<>>
    /\ uncalled = 0

\* a goroutine calls an operation and reaches lru.Lock()
Invoke(p, cl) ==
    /\ pc[p] = "idle"
    /\ call' = [call EXCEPT ![p] = cl]
    /\ pc' = [pc EXCEPT ![p] = "lock"]
    /\ UNCHANGED <<configVars, cacheVars, now, histVars, mu, out, pending, outer, expect>>

Lock(p) ==
    /\ pc[p] = "lock"
    /\ CanLock(p)
    /\ mu' = TRUE
    /\ pc' = [pc EXCEPT ![p] = "body"]
    /\ UNCHANGED <<configVars, cacheVars, now, histVars, call, out, pending, outer, expect>>

\* what the body leaves to the next steps
AfterRemoval(r) == IF r.cb # <<>> THEN "callback" ELSE "unlock"

\* the body of the call up to lazyRemoveOldest and to the call of onEvicted
Body(p) ==
    /\ pc[p] = "body"
    /\ LET cl == call[p]
           isNew == cl.op \in {"Put", "PutWithTimeout"} /\ cl.key \notin DOMAIN hash
           r == IF isNew
                THEN Result(putNew(Cache, cl.key, cl.value, IF cl.op = "Put" THEN cacheTime ELSE cl.t),
                            <<>>, Nil, FALSE, 0)
                ELSE ApplyCall(Cache, cl)
       IN  /\ lst' = r.lst
           /\ hash' = r.hash
           /\ heap' = r.heap
           /\ out' = [out EXCEPT ![p] = [cb |-> <<>>, value |-> r.value, found |-> r.found, n |-> r.n]]
           /\ pending' = [pending EXCEPT ![p] = r.cb]
           /\ expect' = [expect EXCEPT ![p] = ApplyCall(Cache, cl)]
           /\ pc' = [pc EXCEPT ![p] = IF isNew THEN "evict" ELSE AfterRemoval(r)]
    /\ UNCHANGED <<configVars, now, histVars, mu, call, outer>>

\* lazyRemoveOldest, up to the call of onEvicted
Evict(p) ==
    /\ pc[p] = "evict"
    /\ LET r == lazyRemoveOldest(Cache)
       IN  /\ lst' = r.lst
           /\ hash' = r.hash
           /\ heap' = r.heap
           /\ pending' = [pending EXCEPT ![p] = r.cb]
           /\ pc' = [pc EXCEPT ![p] = AfterRemoval(r)]
    /\ UNCHANGED <<configVars, now, histVars, mu, call, out, outer, expect>>

\* lru.onEvicted(entry.key, entry.value): a callback that returns, or one that
\* calls an operation of the same cache
Callback(p) ==
    /\ pc[p] = "callback"
    /\ pending' = [pending EXCEPT ![p] = <<>>]
    /\ IF onEvicted = "reenter"
       THEN \E inner \in ConcCalls :
               /\ outer' = [outer EXCEPT ![p] = Append(outer[p],
                               [call |-> call[p], expect |-> expect[p],
                                out |-> [out[p] EXCEPT !.cb = out[p].cb \o pending[p]]])]
               /\ call' = [call EXCEPT ![p] = inner]
               /\ out' = [out EXCEPT ![p] = NoOut]
               /\ expect' = [expect EXCEPT ![p] = NoResult]
               /\ pc' = [pc EXCEPT ![p] = "lock"]
       ELSE /\ out' = [out EXCEPT ![p].cb = out[p].cb \o pending[p]]
            /\ pc' = [pc EXCEPT ![p] = "unlock"]
            /\ UNCHANGED <<call, outer, expect>>
    /\ UNCHANGED <<configVars, cacheVars, now, histVars, mu>>

\* the deferred lru.Unlock() and the return, to the callback that made the call
\* or to the caller
Unlock(p) ==
    /\ pc[p] = "unlock"
    /\ mu' = Unlocked(p)
    /\ IF outer[p] # <<>>
       THEN LET f == outer[p][Len(outer[p])]
            IN  /\ call' = [call EXCEPT ![p] = f.call]
                /\ out' = [out EXCEPT ![p] = f.out]
                /\ expect' = [expect EXCEPT ![p] = f.expect]
                /\ outer' = [outer EXCEPT ![p] = SubSeq(outer[p], 1, Len(outer[p]) - 1)]
                /\ pc' = [pc EXCEPT ![p] = "unlock"]
       ELSE /\ pc' = [pc EXCEPT ![p] = "idle"]
            /\ call' = [call EXCEPT ![p] = NoCall]
            /\ out' = [out EXCEPT ![p] = NoOut]
            /\ expect' = [expect EXCEPT ![p] = NoResult]
            /\ UNCHANGED outer
    /\ UNCHANGED <<configVars, cacheVars, now, histVars, pending>>

ConcNext ==
    \/ \E p \in Procs, cl \in ConcCalls : Invoke(p, cl)
    \/ \E p \in Procs : Lock(p)
    \/ \E p \in Procs : Body(p)
    \/ \E p \in Procs : Evict(p)
    \/ \E p \in Procs : Callback(p)
    \/ \E p \in Procs : Unlock(p)
    \/ \E d \in TimeSteps : Tick(d)

ConcSpec == ConcInit /\ [][ConcNext]_vars

\* The scheduler runs every goroutine that can take a step, and a goroutine
\* waiting in Lock gets the mutex when it is unlocked again and again (the
\* mutex's starvation mode hands it over).
Fairness ==
    \A p \in Procs :
        /\ WF_vars(Body(p))
        /\ WF_vars(Evict(p))
        /\ WF_vars(Callback(p))
        /\ WF_vars(Unlock(p))
        /\ SF_vars(Lock(p))

FairSpec == ConcInit /\ [][ConcNext]_vars /\ Fairness

\* ------------------------------------------------------------------- claims

PutOps == {"Put", "PutWithTimeout"}
\* a step that is an operation of the cache (the clock stands still in it)
OpStep == now' = now
KeysOf(l, hp) == {hp[l[i]].key : i \in 1..Len(l)}
Size == Cardinality(DOMAIN hash)
Max(x, y) == IF x >= y THEN x ELSE y
\* the entry of key k, for k in the index
EntryOf(k) == heap[hash[k]]

\* C1: between operations the index and the list are in bijection: every handle
\* is live, the index's keys are the keys of the list's entries, no key is twice
\* in the list, each index handle is in the list and carries its own key, and the
\* index is as large as the list is long.
C1_Bijection ==
    /\ Range(lst) \cup Range(hash) \subseteq DOMAIN heap
    /\ DOMAIN hash = KeysOf(lst, heap)
    /\ \A i, j \in 1..Len(lst) : i # j => heap[lst[i]].key # heap[lst[j]].key
    /\ \A k \in DOMAIN hash : hash[k] \in Range(lst) /\ heap[hash[k]].key = k
    /\ Cardinality(DOMAIN hash) = Len(lst)

\* C1's case: two entries are held right after a Put evicted a third
C1_Witness == Len(lst) = 2 /\ last.op \in PutOps /\ cbLog # <<>>

\* C2 as stated: after a Put or PutWithTimeout that inserts a new key, the cache
\* holds at most maxLen entries, for every configured maxLen.
C2_Original ==
    [][(OpStep /\ last'.op \in PutOps /\ ~last'.existed) => Cardinality(DOMAIN hash') <= maxLen]_vars

\* C2 amended: after a Put or PutWithTimeout that inserts a new key, the cache
\* holds at most maxLen entries when maxLen >= 0, and none when maxLen < 0.
C2_Capacity ==
    [][(OpStep /\ last'.op \in PutOps /\ ~last'.existed) => Cardinality(DOMAIN hash') <= Max(maxLen, 0)]_vars

\* C2's case: a Put of a new key into a full cache of two has completed
C2_Witness == last.op \in PutOps /\ ~last.existed /\ maxLen = 2 /\ Size = 2 /\ cbLog # <<>>

\* C3: a Put or PutWithTimeout of a new key that makes the size exceed maxLen
\* removes exactly one entry, the one whose most recent touch (insertion, update,
\* successful Get) is the oldest; a Put that does not overflow, a Put of an
\* existing key, Get, Del and Len remove no entry but Get's expired key and
\* Del's key.
C3_EvictsLeastRecent ==
    [][OpStep =>
        LET k == last'.key
            removed == (DOMAIN hash \cup (IF last'.op \in PutOps THEN {k} ELSE {})) \ DOMAIN hash'
        IN  /\ (last'.op \in PutOps /\ k \notin DOMAIN hash /\ Size + 1 > maxLen)
                  => removed = {Head(Touch(touched, k))}
            /\ (last'.op \in PutOps /\ ~(k \notin DOMAIN hash /\ Size + 1 > maxLen))
                  => removed = {}
            /\ last'.op = "Get"
                  => removed = (IF k \in DOMAIN hash /\ EntryOf(k).deadTime < now THEN {k} ELSE {})
            /\ last'.op = "Del" => removed \subseteq {k}
            /\ last'.op = "Len" => removed = {}]_vars

\* C3's case: a full cache of two has evicted its least recently touched key
C3_Witness ==
    /\ last.op \in PutOps /\ ~last.existed /\ maxLen = 2 /\ Size = 2
    /\ Len(cbLog) = 1 /\ cbLog[1].key \notin DOMAIN hash /\ cbLog[1].key # last.key

\* C4 as stated: from every state, Put(k, v) immediately followed by Get(k)
\* returns (v, true).
C4_Original ==
    [][(OpStep /\ last'.op \in PutOps) =>
        (GetOp(Cache, last.key).found /\ GetOp(Cache, last.key).value = last.value)']_vars

\* C4 amended: on a cache with maxLen >= 1, Put(k, v) immediately followed by
\* Get(k) returns (v, true).
C4_PutThenGet ==
    [][(OpStep /\ last'.op \in PutOps /\ maxLen >= 1) =>
        (GetOp(Cache, last.key).found /\ GetOp(Cache, last.key).value = last.value)']_vars

\* C4's case: a Put of a new key into a full cache has evicted another key and
\* holds its own
C4_Witness ==
    /\ last.op = "Put" /\ ~last.existed /\ maxLen = 1 /\ cbLog # <<>>
    /\ last.key \in DOMAIN hash /\ EntryOf(last.key).value = last.value

\* C5: Get of a present key whose deadline is before now removes the entry from
\* index and list, calls onEvicted once with its key and value, makes the size
\* one less and returns not-found; Get of a present key whose deadline is now or
\* later returns (value, true), moves the entry to the front and removes nothing;
\* Get of an absent key returns not-found and changes nothing.
C5_Get ==
    [][(OpStep /\ last'.op = "Get") =>
        LET k == last'.key IN
        IF k \notin DOMAIN hash
        THEN /\ ~last'.found /\ last'.ret = Nil
             /\ cbLog' = <<>>
             /\ UNCHANGED cacheVars
        ELSE IF EntryOf(k).deadTime < now
        THEN /\ ~last'.found /\ last'.ret = Nil
             /\ DOMAIN hash' = DOMAIN hash \ {k}
             /\ lst' = ListRemove(lst, hash[k])
             /\ hash[k] \notin DOMAIN heap'
             /\ Cardinality(DOMAIN hash') = Size - 1
             /\ cbLog' = IF onEvicted = "nil" THEN <<>>
                         ELSE <<[key |-> k, value |-> EntryOf(k).value]>>
        ELSE /\ last'.found /\ last'.ret = EntryOf(k).value
             /\ lst' = <<hash[k]>> \o ListRemove(lst, hash[k])
             /\ hash' = hash /\ heap' = heap
             /\ cbLog' = <<>>]_vars

\* C5's case: a Get has found its key expired and removed it
C5_Witness == last.op = "Get" /\ last.existed /\ ~last.found /\ cbLog # <<>>

\* C6: Put or PutWithTimeout of a key that has an entry replaces its value, sets
\* its deadline to now + the effective ttl, moves it to the front, leaves the
\* size and every other entry unchanged, evicts nothing, calls no callback, and
\* a Get(k) that follows returns (the new value, true).
C6_PutExisting ==
    [][(OpStep /\ last'.op \in PutOps /\ last'.key \in DOMAIN hash) =>
        LET k == last'.key
            e == hash[k]
        IN  /\ hash' = hash
            /\ lst' = <<e>> \o ListRemove(lst, e)
            /\ DOMAIN heap' = DOMAIN heap
            /\ heap'[e] = [key |-> k, value |-> last'.value, deadTime |-> now + Max(last'.t, Second)]
            /\ \A h \in DOMAIN heap \ {e} : heap'[h] = heap[h]
            /\ cbLog' = <<>>
            /\ (GetOp(Cache, last.key).found /\ GetOp(Cache, last.key).value = last.value)']_vars

\* C6's case: a Put has updated one of two entries and moved it to the front
C6_Witness == last.op \in PutOps /\ last.existed /\ Size = 2 /\ lst[1] = hash[last.key]

\* C7: with a callback configured, an operation calls it exactly once, with the
\* key and value of the entry, for each entry it removes by capacity eviction,
\* expiry in Get or Del, and Close, Len, a Put of an existing key, a Get of an
\* absent or unexpired key and a Del of an absent key call nothing; over the
\* whole run there are as many calls as removals.
C7_Callback ==
    [][OpStep =>
        LET op == last'.op
            k == last'.key
            before == DOMAIN hash \cup (IF op \in PutOps THEN {k} ELSE {})
            removed == IF op = "Close" THEN {} ELSE before \ DOMAIN hash'
            valueOf(x) == IF x \in DOMAIN hash THEN EntryOf(x).value ELSE last'.value
        IN  /\ onEvicted = "nil" => cbLog' = <<>>
            /\ onEvicted # "nil" =>
                  /\ Len(cbLog') = Cardinality(removed)
                  /\ \A i \in 1..Len(cbLog') :
                        cbLog'[i].key \in removed /\ cbLog'[i].value = valueOf(cbLog'[i].key)
                  /\ uncalled' = 0
            /\ (op \in {"Close", "Len"} \/ (op \in PutOps /\ k \in DOMAIN hash)) => cbLog' = <<>>
            /\ (op = "Get" /\ (k \notin DOMAIN hash \/ last'.found)) => cbLog' = <<>>
            /\ (op = "Del" /\ k \notin DOMAIN hash) => cbLog' = <<>>]_vars

\* C7's case: a Del of a present key has called the callback with its entry
C7_Witness == last.op = "Del" /\ last.existed /\ Len(cbLog) = 1 /\ cbLog[1].key = last.key

\* a goroutine whose callback has called into the cache
Reentered(p) == outer[p] # <<>>
\* a goroutine inside the critical section of a call
InCritical(p) == pc[p] \in InCall \/ Reentered(p)

\* C8: with the calls of several goroutines interleaved, at most one call is in
\* the critical section; each call leaves the cache, returns and calls back as
\* the same operation run alone from the state its body started in, so the
\* results are those of the calls in the order they took the lock; and the
\* index and the list are in bijection whenever no call is in progress.
C8_Serialized ==
    /\ Cardinality({p \in Procs : InCritical(p)}) <= 1
    /\ \A p \in Procs :
          pc[p] = "unlock" =>
             /\ lst = expect[p].lst /\ hash = expect[p].hash /\ heap = expect[p].heap
             /\ out[p].cb = expect[p].cb
             /\ out[p].value = expect[p].value /\ out[p].found = expect[p].found
             /\ out[p].n = expect[p].n
    /\ (\A p \in Procs : pc[p] = "idle") => C1_Bijection

\* C8's case: one goroutine ends a Put that evicted while the other waits in Lock
C8_Witness ==
    \E p, q \in Procs :
        /\ pc[p] = "unlock" /\ call[p].op \in PutOps /\ out[p].cb # <<>>
        /\ pc[q] = "lock"

\* C9: once a callback has called an operation of the same cache, that call
\* waits in Lock with the mutex held and no other call in the critical section,
\* and from then on it stays there, the cache does not change, and no call of
\* any goroutine returns or moves on.
C9_Deadlock ==
    [][/\ \A p \in Procs :
             Reentered(p)' =>
                /\ pc'[p] = "lock" /\ mu'
                /\ \A q \in Procs \ {p} : pc'[q] \in {"idle", "lock"}
       /\ \A p \in Procs :
             Reentered(p) =>
                /\ outer'[p] = outer[p] /\ call'[p] = call[p]
                /\ UNCHANGED cacheVars
                /\ \A q \in Procs : pc[q] # "idle" => pc'[q] = pc[q]]_vars

\* C9's case: a callback has called into the cache and another goroutine has
\* called an operation since
C9_Witness ==
    \E p, q \in Procs : Reentered(p) /\ pc[p] = "lock" /\ q # p /\ pc[q] = "lock" /\ mu

\* C10: a call holds the mutex from Lock to the deferred Unlock on every path,
\* the mutex is unlocked when the call returns and whenever no call is in
\* progress, and, with a callback that returns without calling the cache, every
\* call that was made returns.
C10_LockDiscipline ==
    /\ [](\A p \in Procs : pc[p] \in InCall => mu)
    /\ []((\A p \in Procs : pc[p] = "idle") => ~mu)
    /\ [][\A p \in Procs : (pc[p] # "idle" /\ pc'[p] = "idle") => ~mu']_vars
    /\ \A p \in Procs : (pc[p] # "idle" /\ onEvicted # "reenter") ~> (pc[p] = "idle")

\* C10's case: every call has returned, one of them a Get that removed an
\* expired entry, and the mutex is unlocked
C10_Witness ==
    /\ \A p \in Procs : pc[p] = "idle"
    /\ ~mu /\ onEvicted = "record" /\ now = 1001 /\ DOMAIN hash = {"b"}
    /\ EntryOf("b").deadTime = 2001

\* C11: Del of a present key removes the entry from index and list, calls the
\* callback once, returns the stored value, leaves the size one less and a
\* Get of the key not-found; Del of an absent key returns nil, calls nothing
\* and changes nothing.
C11_Del ==
    [][(OpStep /\ last'.op = "Del") =>
        LET k == last'.key IN
        IF k \in DOMAIN hash
        THEN /\ last'.ret = EntryOf(k).value
             /\ DOMAIN hash' = DOMAIN hash \ {k}
             /\ lst' = ListRemove(lst, hash[k])
             /\ hash[k] \notin DOMAIN heap'
             /\ Cardinality(DOMAIN hash') = Size - 1
             /\ cbLog' = IF onEvicted = "nil" THEN <<>>
                         ELSE <<[key |-> k, value |-> EntryOf(k).value]>>
             /\ (~GetOp(Cache, last.key).found /\ GetOp(Cache, last.key).value = Nil)'
        ELSE /\ last'.ret = Nil
             /\ cbLog' = <<>>
             /\ UNCHANGED cacheVars]_vars

\* C11's case: a Del has removed one of two entries and returned its value
C11_Witness == last.op = "Del" /\ last.existed /\ last.ret \in Values /\ Size = 1 /\ maxLen = 2

\* C12: Close leaves the index and the list empty and Len at 0, calls no
\* callback whatever the entries were, and leaves the cache in the state
\* NewCacheWithConfig returns for its configuration, so that every operation
\* then does as on a new cache.
C12_Close ==
    [][(OpStep /\ last'.op = "Close") =>
        /\ (lst = <<>> /\ hash = EmptyMap /\ heap = EmptyMap)'
        /\ (LenOp(Cache).n = 0)'
        /\ cbLog' = <<>>
        /\ ([maxLen |-> maxLen, onEvicted |-> onEvicted, lst |-> lst, hash |-> hash,
             cacheTime |-> cacheTime] = NewCacheWithConfig(conf))']_vars

\* C12's case: a Close has discarded the entries of a cache with a callback
C12_Witness == last.op = "Close" /\ last.existed /\ onEvicted = "record" /\ lst = <<>> /\ now = 0

\* C13: the value and the deadline of an entry that stays change only in a Put
\* or PutWithTimeout of its key; a Get that finds its key changes the list
\* order only; the clock changes nothing.
C13_DeadlineFrame ==
    [][/\ \A k \in DOMAIN hash \cap DOMAIN hash' :
            (heap'[hash'[k]] # heap[hash[k]]) => (OpStep /\ last'.op \in PutOps /\ last'.key = k)
       /\ (OpStep /\ last'.op = "Get" /\ last'.found) =>
            /\ hash' = hash /\ heap' = heap
            /\ Range(lst') = Range(lst)]_vars

\* C13's case: a Get has found an entry at its deadline and left the deadline
C13_Witness ==
    /\ last.op = "Get" /\ last.found /\ now = 1000
    /\ EntryOf(last.key).deadTime = now /\ lst[1] = hash[last.key] /\ Size = 2

\* the ttl a Put or PutWithTimeout step asks for: its argument, or the cache's default
TtlOf(l) == IF l.op = "Put" THEN cacheTime ELSE l.t
\* an entry of the index whose deadline has passed
Expired(k) == k \in DOMAIN hash /\ EntryOf(k).deadTime < now

\* C14: a Put or PutWithTimeout stores the deadline now + max(ttl, 1 second),
\* ttl being the argument or the default TTL; a Get of the key less than one
\* second after the put, the entry not removed meanwhile, finds it whatever
\* the ttl, and a Get after the effective TTL does not.
C14_Deadline ==
    [][/\ (OpStep /\ last'.op \in PutOps /\ last'.key \in DOMAIN hash') =>
            /\ heap'[hash'[last'.key]].deadTime = now + Max(TtlOf(last'), Second)
            /\ (GetOp(Cache, last.key).found)'
       /\ (~OpStep /\ last.op \in PutOps /\ last.key \in DOMAIN hash) =>
            LET eff == Max(TtlOf(last), Second)
                putTime == EntryOf(last.key).deadTime - eff
            IN  /\ (now' - putTime < Second) => (GetOp(Cache, last.key).found)'
                /\ (now' - putTime <= eff) => (GetOp(Cache, last.key).found)'
                /\ (now' - putTime > eff) => (~GetOp(Cache, last.key).found)']_vars

\* C14's case: a ttl of one millisecond was asked for, a second has passed and
\* the entry is at its deadline
C14_Witness ==
    /\ last.op = "PutWithTimeout" /\ last.t = 1 /\ last.key \in DOMAIN hash
    /\ now = 2000 /\ EntryOf(last.key).deadTime = now
    /\ GetOp(Cache, last.key).found

\* C15 as stated: an entry whose deadline has passed leaves the index only in
\* a Get of its key or a capacity eviction.
C15_Original ==
    [][\A k \in DOMAIN hash :
        (Expired(k) /\ k \notin DOMAIN hash') =>
            \/ last'.op = "Get" /\ last'.key = k
            \/ last'.op \in PutOps /\ ~last'.existed /\ hash[k] = Back(lst)]_vars

\* C15: time alone changes nothing in the cache; an entry whose deadline has
\* passed stays in the index and the list until a Get of its key, a Del of its
\* key, a Close or a capacity eviction removes it; Len returns the number of
\* index entries, the expired ones included, and changes nothing.
C15_LazyExpiry ==
    [][/\ ~OpStep => UNCHANGED cacheVars
       /\ \A k \in DOMAIN hash :
            Expired(k) =>
                \/ k \in DOMAIN hash' /\ hash'[k] = hash[k] /\ hash[k] \in Range(lst')
                \/ last'.op \in {"Get", "Del"} /\ last'.key = k
                \/ last'.op = "Close"
                \/ /\ last'.op \in PutOps /\ ~last'.existed
                   /\ hash[k] = Back(lst) /\ Size + 1 > maxLen
       /\ (OpStep /\ last'.op = "Len") =>
            /\ last'.n = Cardinality(DOMAIN hash)
            /\ last'.n = Len(lst)
            /\ cbLog' = <<>>
            /\ UNCHANGED cacheVars]_vars

\* C15's case: Len has counted two entries, one of them past its deadline
C15_Witness ==
    /\ last.op = "Len" /\ last.n = 2
    /\ \E k \in DOMAIN hash : Expired(k)
    /\ \E k \in DOMAIN hash : ~Expired(k)

\* C16: a cache is constructed with maxLen <= 0 as with any other; on it every
\* Put or PutWithTimeout of a new key removes one entry in the same call, with
\* one callback when there is one, and the cache never holds more than one
\* entry between operations.
C16_NoRetention ==
    [][maxLen <= 0 =>
        /\ Size <= 1 /\ Cardinality(DOMAIN hash') <= 1
        /\ (OpStep /\ last'.op \in PutOps /\ ~last'.existed) =>
            /\ Len(lst') = Len(lst)
            /\ Len(cbLog') = IF onEvicted = "nil" THEN 0 ELSE 1]_vars

\* C16's case: a Put on a cache of maxLen -1 has called the callback
C16_Witness ==
    /\ conf.MaxLen = -1 /\ maxLen = -1
    /\ last.op = "Put" /\ ~last.existed /\ Len(cbLog) = 1 /\ Size <= 1

\* the default TTL of a cache constructed with configuration cfg
DefaultTTL(cfg) == IF cfg.CacheTime >= Millisecond THEN cfg.CacheTime ELSE Minute

\* C17: Put(k, v) does what PutWithTimeout(k, v, D) does from the same state,
\* D being the configured CacheTime when that is at least a millisecond and a
\* minute otherwise: same list, index, entries with their deadlines, callbacks;
\* NewCache is a cache of maxLen 10000, one minute, no callback.
C17_PutDefault ==
    [][/\ (OpStep /\ last'.op = "Put") =>
            LET r == PutWithTimeoutOp(Cache, last'.key, last'.value, DefaultTTL(conf))
            IN  /\ lst' = r.lst /\ hash' = r.hash /\ heap' = r.heap
                /\ cbLog' = r.cb
                /\ last'.ret = r.value
       /\ NewCache = [maxLen |-> 10000, onEvicted |-> "nil", lst |-> <<>>,
                      hash |-> EmptyMap, cacheTime |-> Minute]]_vars

\* C17's case: a Put on a cache configured with CacheTime 0 stored a deadline
\* one minute ahead
C17_Witness ==
    /\ last.op = "Put" /\ conf.CacheTime = 0 /\ last.key \in DOMAIN hash
    /\ EntryOf(last.key).deadTime = now + Minute /\ now = 1000

\* C18: Wrap returns the cache it is given when there is one; for none it
\* returns a null cache on which, after any operations, nothing is stored,
\* Get returns nil and not-found, Del returns nil, Len returns 0, Close does
\* nothing, no callback is made, and every operation is there to be called.
C18_Wrap ==
    /\ wrap.given # NilCache => wrap.iface = wrap.given
    /\ wrap.given = NilCache =>
        /\ wrap.iface = "empty"
        /\ lst = <<>> /\ hash = EmptyMap /\ heap = EmptyMap
        /\ cbLog = <<>>
        /\ last.ret = Nil /\ ~last.found /\ last.n = 0
        /\ \A key \in Keys : ~emptyGet(Cache, key).found /\ emptyDel(Cache, key).value = Nil
        /\ emptyLen(Cache).n = 0
        /\ ENABLED WPut("a", "v1") /\ ENABLED WPutWithTimeout("a", "v1", 1)
        /\ ENABLED WGet("a") /\ ENABLED WDel("a") /\ ENABLED WLen /\ ENABLED WClose

\* C18's case: on the null cache, keys were put, a second passed and a Get of
\* the key put last was not-found
C18_Witness ==
    /\ wrap.given = NilCache /\ wrap.iface = "empty"
    /\ last.op = "Get" /\ ~last.found /\ now = 1000
    /\ Len(touched) = 2 /\ touched[2] = last.key

\* the cache with every deadline moved to d: the cache as a clock that differs sees it
WithDeadlines(c, d) == [c EXCEPT !.heap = [e \in DOMAIN c.heap |-> [c.heap[e] EXCEPT !.deadTime = d]]]
\* the call a step made, as ApplyCall takes it
CallOf(l) == [op |-> l.op, key |-> l.key, value |-> l.value, t |-> l.t]
\* what C19 compares of a result r of the call on key k: list, index, callbacks,
\* results, the keys and values stored, and the deadline stored for k
Outcome(r, k) ==
    [lst |-> r.lst, hash |-> r.hash, cb |-> r.cb, value |-> r.value, found |-> r.found, n |-> r.n,
     stored |-> [e \in DOMAIN r.heap |-> <<r.heap[e].key, r.heap[e].value>>],
     deadline |-> IF k \in DOMAIN r.hash THEN r.heap[r.hash[k]].deadTime ELSE 0]

\* C19: every operation but Get has the outcome it would have with all the
\* stored deadlines passed and with none passed: same results, removals and
\* callbacks.  A Put of an existing key past its deadline updates it in place
\* with no callback and Get finds it again, a Del of a key past its deadline
\* returns the stored value, and a capacity eviction removes the back entry.
C19_ClockBlind ==
    [][(OpStep /\ last'.op # "Get") =>
        /\ LET had == Outcome([lst |-> lst', hash |-> hash', heap |-> heap', cb |-> cbLog',
                                value |-> last'.ret, found |-> last'.found, n |-> last'.n], last'.key)
           IN  \A r \in {ApplyCall(WithDeadlines(Cache, now - 1), CallOf(last')),
                        ApplyCall(WithDeadlines(Cache, now + Minute), CallOf(last'))} :
                    Outcome(r, last'.key) = had
        /\ (last'.op \in PutOps /\ Expired(last'.key)) =>
            /\ cbLog' = <<>>
            /\ hash' = hash /\ Range(lst') = Range(lst)
            /\ (GetOp(Cache, last.key).found /\ GetOp(Cache, last.key).value = last.value)'
        /\ (last'.op = "Del" /\ Expired(last'.key)) => last'.ret = EntryOf(last'.key).value
        /\ (last'.op \in PutOps /\ last'.key \notin DOMAIN hash /\ lst # <<>> /\ Size + 1 > maxLen) =>
            /\ Back(lst) \notin Range(lst')
            /\ Range(lst) \ {Back(lst)} \subseteq Range(lst')]_vars

\* C19's case: a capacity eviction has left an entry that is past its deadline
C19_Witness ==
    /\ maxLen = 2 /\ last.op \in PutOps /\ ~last.existed /\ Len(cbLog) = 1
    /\ Size = 2 /\ Expired(heap[lst[2]].key)

\* C20: on a cache of maxLen <= 0 a Put or PutWithTimeout evicts the entry it
\* has just inserted, the callback getting the key and value of the put, so
\* that Len is 0 after every operation and no Get finds a key; on a cache of
\* maxLen >= 1 a Put of a new key leaves that key in the cache.
C20_SelfEviction ==
    [][/\ maxLen <= 0 =>
            /\ (OpStep /\ last'.op \in PutOps) =>
                /\ ~last'.existed
                /\ last'.key \notin DOMAIN hash'
                /\ onEvicted # "nil" => cbLog' = <<[key |-> last'.key, value |-> last'.value]>>
            /\ (LenOp(Cache).n = 0)'
            /\ \A key \in Keys : (~GetOp(Cache, key).found)'
            /\ (OpStep /\ last'.op = "Get") => ~last'.found
            /\ (OpStep /\ last'.op = "Len") => last'.n = 0
       /\ (maxLen >= 1 /\ OpStep /\ last'.op \in PutOps /\ ~last'.existed) =>
            /\ last'.key \in DOMAIN hash'
            /\ lst'[1] = hash'[last'.key]
            /\ \A i \in 1..Len(cbLog') : cbLog'[i].key # last'.key]_vars

\* C20's case: on a cache of maxLen 0 the callback got the key and value just put
C20_Witness ==
    /\ maxLen = 0 /\ onEvicted = "record" /\ last.op = "PutWithTimeout"
    /\ cbLog = <<[key |-> last.key, value |-> last.value]>>
    /\ Size = 0 /\ lst = <<>>

====
